---- MODULE Spec2Model ----
(***************************************************************************)
(* Prediction-serving core of the customer churn service:                  *)
(*   src/src/src/predict.py  ChurnPredictor (singleton model handle)       *)
(*   src/src/api/app.py      Flask handlers, metrics dict, CustomerInput   *)
(* Request handlers run on independent threads.  A statement               *)
(* metrics[k] += 1 is a read of the dict entry followed by a store, with   *)
(* no lock around it, so each increment is two steps of the thread.        *)
(***************************************************************************)
EXTENDS Integers, FiniteSets, Sequences, TLC

\* ------------------------------------------------------------- bounds
NumThreads == 2
MaxRequests == 3
MaxConstruct == 2
\* grid points between two consecutive 4-decimal values of a probability
SubSteps == 10

\* ------------------------------------------------------------- constants
\* round(churn_prob, 4)
Decimals == 4

RECURSIVE Pow(_, _)
Pow(b, e) == IF e = 0 THEN 1 ELSE b * Pow(b, e - 1)

\* number of representable values of round(p, 4) in (0, 1]
Round4Scale == Pow(10, Decimals)
\* the model output p is an integer number of grid units, p / Scale in [0,1]
Scale == Round4Scale * SubSteps

Threads == 1..NumThreads
Counters == {"total_requests", "successful_predictions",
             "failed_predictions", "errors"}

\* ------------------------------------------------------------- schema
Unbounded == -1

\* CustomerInput: every field is required (Field(...)), ge = lo, le = hi
CustomerInput ==
  [ age                        |-> [lo |-> 18, hi |-> 100],
    tenure_months              |-> [lo |-> 0,  hi |-> 120],
    monthly_charges            |-> [lo |-> 0,  hi |-> 1000],
    total_charges              |-> [lo |-> 0,  hi |-> Unbounded],
    support_tickets            |-> [lo |-> 0,  hi |-> 100],
    login_frequency            |-> [lo |-> 0,  hi |-> 1000],
    feature_usage              |-> [lo |-> 0,  hi |-> 1],
    gender_encoded             |-> [lo |-> 0,  hi |-> 1],
    location_encoded           |-> [lo |-> 0,  hi |-> 2],
    contract_type_encoded      |-> [lo |-> 0,  hi |-> 2],
    internet_service_encoded   |-> [lo |-> 0,  hi |-> 2],
    payment_method_encoded     |-> [lo |-> 0,  hi |-> 2],
    charges_per_month          |-> [lo |-> 0,  hi |-> Unbounded],
    support_per_month          |-> [lo |-> 0,  hi |-> Unbounded],
    login_per_month            |-> [lo |-> 0,  hi |-> Unbounded],
    is_new_customer            |-> [lo |-> 0,  hi |-> 1],
    is_high_value              |-> [lo |-> 0,  hi |-> 1],
    has_tech_support           |-> [lo |-> 0,  hi |-> 1],
    has_device_protection      |-> [lo |-> 0,  hi |-> 1],
    tenure_charges_interaction |-> [lo |-> 0,  hi |-> Unbounded],
    support_value_ratio        |-> [lo |-> 0,  hi |-> Unbounded] ]

Fields == DOMAIN CustomerInput

\* a JSON value of a map entry: a number, or a string that is not a number
Num(n) == [t |-> "num", v |-> n]
Str == [t |-> "str", v |-> 0]

\* the field's value passes its ge / le constraints
InBound(f, x) ==
  /\ x.t = "num"
  /\ x.v >= CustomerInput[f].lo
  /\ CustomerInput[f].hi # Unbounded => x.v <= CustomerInput[f].hi

\* the field is present, numeric, and outside its declared bound
OutOfBound(f, m) ==
  /\ f \in DOMAIN m
  /\ m[f].t = "num"
  /\ ~InBound(f, m[f])

\* e.errors(): the fields (loc) of all violations, missing, wrong type or bound;
\* keys of the map that are not schema fields are ignored
ValidationErrors(m) ==
  {f \in Fields : f \notin DOMAIN m \/ ~InBound(f, m[f])}

\* ------------------------------------------------------------- request bodies
\* the body of tests/test_api.py test_predict_valid, reals taken to integers
ValidBody ==
  [ age |-> Num(35), tenure_months |-> Num(12), monthly_charges |-> Num(65),
    total_charges |-> Num(780), support_tickets |-> Num(2),
    login_frequency |-> Num(20), feature_usage |-> Num(1),
    gender_encoded |-> Num(1), location_encoded |-> Num(0),
    contract_type_encoded |-> Num(1), internet_service_encoded |-> Num(1),
    payment_method_encoded |-> Num(0), charges_per_month |-> Num(65),
    support_per_month |-> Num(0), login_per_month |-> Num(2),
    is_new_customer |-> Num(0), is_high_value |-> Num(0),
    has_tech_support |-> Num(1), has_device_protection |-> Num(1),
    tenure_charges_interaction |-> Num(780), support_value_ratio |-> Num(0) ]

With(m, f, x) == [g \in DOMAIN m \cup {f} |-> IF g = f THEN x ELSE m[g]]
Without(m, f) == [g \in DOMAIN m \ {f} |-> m[g]]

\* JSON maps a client may post
Maps ==
  { ValidBody,
    [age |-> Num(-5)],
    With(With(With(Without(ValidBody, "total_charges"), "age", Num(101)),
              "tenure_months", Str), "extra_key", Num(7)) }

\* request.get_json(): a map, or anything else (a list, null, a parse error)
Bodies == {[kind |-> "map", fields |-> m] : m \in Maps} \cup
          {[kind |-> "notmap", fields |-> [g \in {} |-> Str]]}

\* config.ENABLE_METRICS, its default
ENABLE_METRICS == TRUE

\* ------------------------------------------------------------- state
VARIABLES
  _instance,       \* ChurnPredictor._instance: "None" or "obj"
  _model,          \* the instance's _model: "None" or "model"
  predictor,       \* app.predictor: "unset" before the module body ran
  metrics,         \* app.metrics: counter name -> value
  pc,              \* per thread: the line of the handler it is about to run
  body,            \* per thread: the JSON body of the request it serves, known
                   \* once request.get_json() read it or the response left
  reg,             \* per thread: the counter value read by metrics[k] += 1
  resp,            \* per thread: the response it returned
  churn_prob,      \* per thread: the model output of its inference call
  result,          \* per thread: the dict returned by ChurnPredictor.predict
  loads,           \* history: executions of _load_model
  constructs,      \* history: calls of ChurnPredictor()
  started,         \* history: predict requests received
  faults,          \* history: unhandled faults given to the 500 handler
  incs,            \* history: stores executed on each counter
  validated,       \* history, per thread: CustomerInput(...) ran for the request
  inferCalls,      \* history, per thread: predictor.predict calls of the request
  raised,          \* history, per thread: the inference call raised
  stored           \* history, per thread: counters the request stored to

handle == <<_instance, _model, predictor, loads, constructs>>
local == <<churn_prob, result, validated, inferCalls, raised>>
vars == <<_instance, _model, predictor, metrics, pc, body, reg, resp,
          churn_prob, result, loads, constructs, started, faults, incs,
          validated, inferCalls, raised, stored>>

NoBody == [kind |-> "none", fields |-> [g \in {} |-> Str]]
NoResult == [churn_prediction |-> -1, churn_probability |-> -1, risk_level |-> ""]
NoResp == [status |-> 0, success |-> FALSE, error |-> "", details |-> {},
           result |-> NoResult]

\* ------------------------------------------------------------- ChurnPredictor
\* _load_model: load_model either returns the artifact or raises; the except
\* clause swallows the exception and leaves _model None
_load_model(ok) ==
  /\ _model' = IF ok THEN "model" ELSE "None"
  /\ loads' = loads + 1

\* __new__ without the _instance test: every construction loads again
ChurnPredictor_reloading(ok) ==
  /\ _instance' = "obj"
  /\ _load_model(ok)
  /\ constructs' = constructs + 1

\* ChurnPredictor(): __new__ creates and loads the instance only the first time
ChurnPredictor(ok) ==
  /\ IF _instance = "None"
       THEN _instance' = "obj" /\ _load_model(ok)
       ELSE UNCHANGED <<_instance, _model, loads>>
  /\ constructs' = constructs + 1

\* ChurnPredictor.is_ready
is_ready == _model # "None"

\* predictor is None or not predictor.is_ready()
NotReady == predictor = "None" \/ ~is_ready

churn_pred_inclusive(p) == IF 2 * p >= Scale THEN 1 ELSE 0

\* 1 if churn_prob > 0.5 else 0
churn_pred(p) == IF 2 * p > Scale THEN 1 ELSE 0

risk_level_inclusive(p) ==
  IF 10 * p >= 7 * Scale THEN "High"
  ELSE IF 10 * p >= 4 * Scale THEN "Medium" ELSE "Low"

\* 'High' if churn_prob > 0.7 else 'Medium' if churn_prob > 0.4 else 'Low'
risk_level(p) ==
  IF 10 * p > 7 * Scale THEN "High"
  ELSE IF 10 * p > 4 * Scale THEN "Medium" ELSE "Low"

\* round(churn_prob, 4), in units of 1/10^4; a value halfway between two
\* 4-decimal numbers goes to either neighbour, as its binary form decides
round4(p, tieUp) ==
  LET q == p \div SubSteps
      r == p % SubSteps
  IN  IF 2 * r < SubSteps THEN q
      ELSE IF 2 * r > SubSteps THEN q + 1
      ELSE IF tieUp THEN q + 1 ELSE q

\* the dict ChurnPredictor.predict returns for model output p
ChurnPredictor_predict(p, tieUp) ==
  [churn_prediction |-> churn_pred(p),
   churn_probability |-> round4(p, tieUp),
   risk_level |-> risk_level(p)]

\* model outputs tried by the requests of the service
ProbSamples == {(Scale \div 2) + 1}

\* ------------------------------------------------------------- initial state
Init ==
  /\ _instance = "None"
  /\ _model = "None"
  /\ predictor = "unset"
  /\ metrics = [c \in Counters |-> 0]
  /\ pc = [t \in Threads |-> "idle"]
  /\ body = [t \in Threads |-> NoBody]
  /\ reg = [t \in Threads |-> 0]
  /\ resp = [t \in Threads |-> NoResp]
  /\ churn_prob = [t \in Threads |-> 0]
  /\ result = [t \in Threads |-> NoResult]
  /\ loads = 0
  /\ constructs = 0
  /\ started = 0
  /\ faults = 0
  /\ incs = [c \in Counters |-> 0]
  /\ validated = [t \in Threads |-> FALSE]
  /\ inferCalls = [t \in Threads |-> 0]
  /\ raised = [t \in Threads |-> FALSE]
  /\ stored = [t \in Threads |-> {}]

\* ------------------------------------------------------------- startup
\* app.py module body: predictor = ChurnPredictor(); _load_model swallows the
\* load failure, so the constructor returns the instance in both cases
AppInit ==
  /\ predictor = "unset"
  /\ \E ok \in BOOLEAN : ChurnPredictor(ok)
  /\ predictor' = "obj"
  /\ UNCHANGED <<metrics, pc, body, reg, resp, local, started, faults, incs,
                 stored>>

\* a later ChurnPredictor() call while the service runs
Reconstruct ==
  /\ predictor # "unset"
  /\ constructs < MaxConstruct
  /\ \E ok \in BOOLEAN : ChurnPredictor(ok)
  /\ UNCHANGED <<predictor, metrics, pc, body, reg, resp, local, started,
                 faults, incs, stored>>

\* ------------------------------------------------------------- GET routes
\* the GET handlers read the state and change nothing; each response is a
\* function of the state in which the handler runs
root_response ==
  [status |-> 200, text |-> "Customer Churn Prediction API"]

\* the timestamp of the body is left out
health_response == [status |-> 200, text |-> "healthy"]

ready_response ==
  IF NotReady THEN [status |-> 503, text |-> "not ready"]
  ELSE [status |-> 200, text |-> "ready"]

get_metrics_response ==
  IF ~ENABLE_METRICS
    THEN [status |-> 403, text |-> "Metrics disabled", snapshot |-> <<>>]
    ELSE [status |-> 200, text |-> "", snapshot |-> metrics]

root == predictor # "unset" /\ root_response.status = 200 /\ UNCHANGED vars

health == predictor # "unset" /\ health_response.status = 200 /\ UNCHANGED vars

ready ==
  predictor # "unset" /\ ready_response.status \in {200, 503} /\ UNCHANGED vars

get_metrics ==
  predictor # "unset" /\ get_metrics_response.status \in {200, 403}
  /\ UNCHANGED vars

\* ------------------------------------------------------------- handlers
Goto(t, l) == pc' = [pc EXCEPT ![t] = l]

\* the read half of metrics[c] += 1
Load(t, c, next) ==
  /\ reg' = [reg EXCEPT ![t] = metrics[c]]
  /\ Goto(t, next)
  /\ UNCHANGED <<handle, metrics, body, resp, local, started, faults, incs,
                 stored>>

\* the store half of metrics[c] += 1
Store(t, c) ==
  /\ metrics' = [metrics EXCEPT ![c] = reg[t] + 1]
  /\ incs' = [incs EXCEPT ![c] = @ + 1]
  /\ stored' = [stored EXCEPT ![t] = @ \cup {c}]
  /\ reg' = [reg EXCEPT ![t] = 0]

\* return jsonify(...), status
Respond(t, r) ==
  /\ resp' = [resp EXCEPT ![t] = r]
  /\ Goto(t, "done")

\* an unhandled fault of some other route reaches the 500 handler
Fault(t) ==
  /\ predictor # "unset"
  /\ pc[t] = "idle"
  /\ started + faults < MaxRequests
  /\ faults' = faults + 1
  /\ Goto(t, "L178r")
  /\ UNCHANGED <<handle, metrics, body, reg, resp, local, started, incs,
                 stored>>

internal_error_L178r(t) ==
  /\ pc[t] = "L178r"
  /\ Load(t, "errors", "L178w")

internal_error_L178w(t) ==
  /\ pc[t] = "L178w"
  /\ Store(t, "errors")
  /\ Respond(t, [status |-> 500, success |-> FALSE,
                 error |-> "Internal server error", details |-> {},
                 result |-> NoResult])
  /\ UNCHANGED <<handle, body, local, started, faults>>

\* a POST arrives at the predict route; nothing reads its body before
\* line 129
Receive(t) ==
  /\ predictor # "unset"
  /\ pc[t] = "idle"
  /\ started + faults < MaxRequests
  /\ started' = started + 1
  /\ Goto(t, "L116r")
  /\ UNCHANGED <<handle, metrics, body, reg, resp, local, faults, incs,
                 stored>>

predict_L116r(t) ==
  /\ pc[t] = "L116r"
  /\ Load(t, "total_requests", "L116w")

predict_L116w(t) ==
  /\ pc[t] = "L116w"
  /\ Store(t, "total_requests")
  /\ Goto(t, "L119")
  /\ UNCHANGED <<handle, body, resp, local, started, faults>>

\* the readiness test left out: every request goes on to validation
predict_L119_unchecked(t) ==
  /\ pc[t] = "L119"
  /\ Goto(t, "L129")
  /\ UNCHANGED <<handle, metrics, body, reg, resp, local, started, faults,
                 incs, stored>>

\* if predictor is None or not predictor.is_ready()
predict_L119(t) ==
  /\ pc[t] = "L119"
  /\ Goto(t, IF NotReady THEN "L120r" ELSE "L129")
  /\ UNCHANGED <<handle, metrics, body, reg, resp, local, started, faults,
                 incs, stored>>

predict_L120r(t) ==
  /\ pc[t] = "L120r"
  /\ Load(t, "errors", "L120w")

\* model unavailable answered without counting it
predict_L120w_uncounted(t) ==
  /\ pc[t] = "L120w"
  /\ reg' = [reg EXCEPT ![t] = 0]
  /\ \E b \in Bodies : body' = [body EXCEPT ![t] = b]
  /\ Respond(t, [status |-> 503, success |-> FALSE,
                 error |-> "Model not available", details |-> {},
                 result |-> NoResult])
  /\ UNCHANGED <<handle, metrics, local, started, faults, incs, stored>>

\* the 503 leaves without the body having been read: whatever it was
predict_L120w(t) ==
  /\ pc[t] = "L120w"
  /\ Store(t, "errors")
  /\ \E b \in Bodies : body' = [body EXCEPT ![t] = b]
  /\ Respond(t, [status |-> 503, success |-> FALSE,
                 error |-> "Model not available", details |-> {},
                 result |-> NoResult])
  /\ UNCHANGED <<handle, local, started, faults>>

\* CustomerInput(**request.get_json()): a body that is no map raises some
\* other exception than ValidationError
predict_L129(t) ==
  /\ pc[t] = "L129"
  /\ \E b \in Bodies :
       /\ body' = [body EXCEPT ![t] = b]
       /\ Goto(t, IF b.kind # "map" THEN "L139r"
                  ELSE IF ValidationErrors(b.fields) # {} THEN "L131r"
                  ELSE "L148")
  /\ validated' = [validated EXCEPT ![t] = TRUE]
  /\ UNCHANGED <<handle, metrics, reg, resp, churn_prob, result,
                 inferCalls, raised, started, faults, incs, stored>>

predict_L131r(t) ==
  /\ pc[t] = "L131r"
  /\ Load(t, "failed_predictions", "L131w")

predict_L131w(t) ==
  /\ pc[t] = "L131w"
  /\ Store(t, "failed_predictions")
  /\ Respond(t, [status |-> 400, success |-> FALSE, error |-> "Invalid input",
                 details |-> ValidationErrors(body[t].fields),
                 result |-> NoResult])
  /\ UNCHANGED <<handle, body, local, started, faults>>

predict_L139r(t) ==
  /\ pc[t] = "L139r"
  /\ Load(t, "errors", "L139w")

predict_L139w(t) ==
  /\ pc[t] = "L139w"
  /\ Store(t, "errors")
  /\ Respond(t, [status |-> 400, success |-> FALSE,
                 error |-> "Invalid request format", details |-> {},
                 result |-> NoResult])
  /\ UNCHANGED <<handle, body, local, started, faults>>

\* predictor.predict(customer_data.dict()) returns for model output p
Inference(t, p, tieUp) ==
  /\ is_ready
  /\ churn_prob' = [churn_prob EXCEPT ![t] = p]
  /\ result' = [result EXCEPT ![t] = ChurnPredictor_predict(p, tieUp)]
  /\ inferCalls' = [inferCalls EXCEPT ![t] = @ + 1]
  /\ Goto(t, "L149r")
  /\ UNCHANGED <<handle, metrics, body, reg, resp, validated, raised,
                 started, faults, incs, stored>>

\* the exception of the inference call is dropped and the request goes on
\* as a success
InferenceRaises_swallowed(t) ==
  /\ inferCalls' = [inferCalls EXCEPT ![t] = @ + 1]
  /\ raised' = [raised EXCEPT ![t] = TRUE]
  /\ Goto(t, "L149r")
  /\ UNCHANGED <<handle, metrics, body, reg, resp, churn_prob, result,
                 validated, started, faults, incs, stored>>

\* predictor.predict raises (the frame, the artifact, or the not-ready
\* RuntimeError): control goes to the except clause of line 159
InferenceRaises(t) ==
  /\ inferCalls' = [inferCalls EXCEPT ![t] = @ + 1]
  /\ raised' = [raised EXCEPT ![t] = TRUE]
  /\ Goto(t, "L160r")
  /\ UNCHANGED <<handle, metrics, body, reg, resp, churn_prob, result,
                 validated, started, faults, incs, stored>>

predict_L148(t) ==
  /\ pc[t] = "L148"
  /\ \/ \E p \in ProbSamples, tieUp \in BOOLEAN : Inference(t, p, tieUp)
     \/ InferenceRaises(t)

predict_L149r(t) ==
  /\ pc[t] = "L149r"
  /\ Load(t, "successful_predictions", "L149w")

predict_L149w(t) ==
  /\ pc[t] = "L149w"
  /\ Store(t, "successful_predictions")
  /\ Respond(t, [status |-> 200, success |-> TRUE, error |-> "",
                 details |-> {}, result |-> result[t]])
  /\ UNCHANGED <<handle, body, local, started, faults>>

predict_L160r(t) ==
  /\ pc[t] = "L160r"
  /\ Load(t, "failed_predictions", "L160w")

predict_L160w(t) ==
  /\ pc[t] = "L160w"
  /\ Store(t, "failed_predictions")
  /\ Respond(t, [status |-> 500, success |-> FALSE,
                 error |-> "Prediction failed", details |-> {},
                 result |-> NoResult])
  /\ UNCHANGED <<handle, body, local, started, faults>>

\* the response is sent and the thread is free for the next request
Return(t) ==
  /\ pc[t] = "done"
  /\ Goto(t, "idle")
  /\ body' = [body EXCEPT ![t] = NoBody]
  /\ resp' = [resp EXCEPT ![t] = NoResp]
  /\ churn_prob' = [churn_prob EXCEPT ![t] = 0]
  /\ result' = [result EXCEPT ![t] = NoResult]
  /\ validated' = [validated EXCEPT ![t] = FALSE]
  /\ inferCalls' = [inferCalls EXCEPT ![t] = 0]
  /\ raised' = [raised EXCEPT ![t] = FALSE]
  /\ stored' = [stored EXCEPT ![t] = {}]
  /\ UNCHANGED <<handle, metrics, reg, started, faults, incs>>

\* one step of the predict handler on thread t
predict(t) ==
  \/ Receive(t)
  \/ predict_L116r(t)
  \/ predict_L116w(t)
  \/ predict_L119(t)
  \/ predict_L120r(t)
  \/ predict_L120w(t)
  \/ predict_L129(t)
  \/ predict_L131r(t)
  \/ predict_L131w(t)
  \/ predict_L139r(t)
  \/ predict_L139w(t)
  \/ predict_L148(t)
  \/ predict_L149r(t)
  \/ predict_L149w(t)
  \/ predict_L160r(t)
  \/ predict_L160w(t)
  \/ Return(t)

\* one step of the 500 handler on thread t
internal_error(t) ==
  \/ Fault(t)
  \/ internal_error_L178r(t)
  \/ internal_error_L178w(t)

\* ------------------------------------------------------------- specifications
\* the service: handlers of concurrent requests interleave
Next ==
  \/ AppInit
  \/ root
  \/ health
  \/ ready
  \/ get_metrics
  \/ \E t \in Threads : predict(t)
  \/ \E t \in Threads : internal_error(t)

Spec == Init /\ [][Next]_vars

\* predict requests served one at a time, the 500 handler never fires, and
\* ChurnPredictor() is called again while the service runs
NextSeq ==
  \/ AppInit
  \/ Reconstruct
  \/ root
  \/ health
  \/ ready
  \/ get_metrics
  \/ \E t \in Threads : (\A u \in Threads \ {t} : pc[u] = "idle") /\ predict(t)

SpecSeq == Init /\ [][NextSeq]_vars

\* ChurnPredictor.predict on every model output of the grid: a request of
\* thread 1 that passed validation against a loaded model
InitPredict ==
  /\ _instance = "obj"
  /\ _model = "model"
  /\ predictor = "obj"
  /\ metrics = [c \in Counters |-> IF c = "total_requests" THEN 1 ELSE 0]
  /\ pc = [t \in Threads |-> IF t = 1 THEN "L148" ELSE "idle"]
  /\ body = [t \in Threads |->
               IF t = 1 THEN [kind |-> "map", fields |-> ValidBody] ELSE NoBody]
  /\ reg = [t \in Threads |-> 0]
  /\ resp = [t \in Threads |-> NoResp]
  /\ churn_prob = [t \in Threads |-> 0]
  /\ result = [t \in Threads |-> NoResult]
  /\ loads = 1
  /\ constructs = 1
  /\ started = 1
  /\ faults = 0
  /\ incs = [c \in Counters |-> IF c = "total_requests" THEN 1 ELSE 0]
  /\ validated = [t \in Threads |-> t = 1]
  /\ inferCalls = [t \in Threads |-> 0]
  /\ raised = [t \in Threads |-> FALSE]
  /\ stored = [t \in Threads |-> IF t = 1 THEN {"total_requests"} ELSE {}]

NextPredict ==
  /\ pc[1] = "L148"
  /\ \E p \in 0..Scale, tieUp \in BOOLEAN : Inference(1, p, tieUp)

SpecPredict == InitPredict /\ [][NextPredict]_vars

\* ------------------------------------------------------------- properties
\* no handler is in the middle of a request
Quiet == \A t \in Threads : pc[t] \in {"idle", "done"}

\* thread t holds the response of a predict request
Answered(t) == pc[t] = "done" /\ body[t].kind # "none"

\* thread t serves a predict request
InPredict(t) ==
  /\ pc[t] \notin {"idle", "L178r", "L178w"}
  /\ pc[t] = "done" => Answered(t)

Unavailable ==
  [status |-> 503, success |-> FALSE, error |-> "Model not available",
   details |-> {}, result |-> NoResult]

PredictionFailed ==
  [status |-> 500, success |-> FALSE, error |-> "Prediction failed",
   details |-> {}, result |-> NoResult]

\* C1: a predict request whose body is a map with a field outside its bound
\* is answered 400 with success false and details naming that field, in
\* every state of the service
C1_OutOfBoundIs400 ==
  \A t \in Threads :
    (Answered(t) /\ body[t].kind = "map"
       /\ \E f \in Fields : OutOfBound(f, body[t].fields))
    => /\ resp[t].status = 400
       /\ resp[t].success = FALSE
       /\ \A f \in Fields :
            OutOfBound(f, body[t].fields) => f \in resp[t].details

C3_TotalCountsEveryCall ==
  Quiet => metrics["total_requests"] = started

\* C4: when all concurrent requests have responded, each counter has grown
\* by the number of increments performed on it
C4_NoLostUpdate ==
  Quiet => \A c \in Counters : metrics[c] = incs[c]

\* C5: the load runs at most once, readiness changes only from not ready to
\* ready and only by the one successful load, a later construction neither
\* reloads nor replaces the instance, and /ready answers 200 "ready" exactly
\* when the model is loaded and 503 "not ready" otherwise
C5_ReadinessChangesOnce ==
  /\ [](/\ loads <= 1
        /\ predictor # "unset" =>
             /\ ready_response = [status |-> 200, text |-> "ready"]
                  <=> _model = "model"
             /\ ready_response = [status |-> 503, text |-> "not ready"]
                  <=> _model = "None")
  /\ [][/\ _model' # _model =>
             (_model = "None" /\ _model' = "model" /\ loads = 0 /\ loads' = 1)
        /\ constructs >= 1 =>
             (loads' = loads /\ _model' = _model /\ _instance' = _instance)]_vars

C5_Witness ==
  /\ constructs >= 2
  /\ loads = 1
  /\ _model = "model"
  /\ ready_response.status = 200
  /\ \E t \in Threads : Answered(t) /\ resp[t].status = 200

\* C6 as claimed: churn_probability in [0,1], churn_prediction in {0,1}, and
\* churn_prediction = 1 exactly when the returned, rounded churn_probability
\* is above 0.5
C6_LabelFollowsRounded ==
  \A t \in Threads :
    result[t] # NoResult
    => /\ result[t].churn_probability \in 0..Round4Scale
       /\ result[t].churn_prediction \in {0, 1}
       /\ result[t].churn_prediction = 1
            <=> 2 * result[t].churn_probability > Round4Scale

\* C6 amended: churn_probability in [0,1], churn_prediction in {0,1}, and
\* churn_prediction = 1 exactly when the model output before rounding is
\* above 0.5; so a returned probability above 0.5 has label 1, and label 1
\* has a returned probability of at least 0.5
C6_LabelFollowsModelOutput ==
  \A t \in Threads :
    result[t] # NoResult
    => /\ result[t].churn_probability \in 0..Round4Scale
       /\ result[t].churn_prediction \in {0, 1}
       /\ result[t].churn_prediction = 1 <=> 2 * churn_prob[t] > Scale
       /\ 2 * result[t].churn_probability > Round4Scale
            => result[t].churn_prediction = 1
       /\ result[t].churn_prediction = 1
            => 2 * result[t].churn_probability >= Round4Scale

C6_Witness ==
  \E t \in Threads :
    /\ result[t].churn_prediction = 1
    /\ 2 * result[t].churn_probability = Round4Scale

\* the tier of a probability x of unit 1/u under the thresholds 0.7 and 0.4
Tier(x, u) ==
  IF 10 * x > 7 * u THEN "High" ELSE IF 10 * x > 4 * u THEN "Medium" ELSE "Low"

\* C7 as claimed: risk_level is High, Medium or Low as the returned, rounded
\* churn_probability is above 0.7, in (0.4, 0.7], or at most 0.4
C7_RiskFollowsRounded ==
  \A t \in Threads :
    result[t] # NoResult
    => result[t].risk_level = Tier(result[t].churn_probability, Round4Scale)

\* C7 amended: risk_level is High, Medium or Low as the model output before
\* rounding is above 0.7, in (0.4, 0.7], or at most 0.4; exactly one tier is
\* returned, and on the returned probability x: x > 0.7 gives High, High
\* has x >= 0.7, Medium has 0.4 <= x <= 0.7, Low has x <= 0.4
C7_RiskFollowsModelOutput ==
  \A t \in Threads :
    result[t] # NoResult
    => LET x == result[t].churn_probability
           tier == result[t].risk_level
       IN  /\ tier \in {"High", "Medium", "Low"}
           /\ tier = "High" <=> 10 * churn_prob[t] > 7 * Scale
           /\ tier = "Medium" <=> /\ 10 * churn_prob[t] > 4 * Scale
                                  /\ 10 * churn_prob[t] <= 7 * Scale
           /\ tier = "Low" <=> 10 * churn_prob[t] <= 4 * Scale
           /\ 10 * x > 7 * Round4Scale => tier = "High"
           /\ tier = "High" => 10 * x >= 7 * Round4Scale
           /\ tier = "Medium" => /\ 10 * x >= 4 * Round4Scale
                                 /\ 10 * x <= 7 * Round4Scale
           /\ tier = "Low" => 10 * x <= 4 * Round4Scale

C7_Witness ==
  \E t \in Threads :
    /\ result[t].risk_level = "High"
    /\ 10 * result[t].churn_probability = 7 * Round4Scale

\* C8: every counter is a non-negative integer and no step of any
\* interleaving of the handlers lowers it
C8_CountersNeverDecrease ==
  /\ [](\A c \in Counters : metrics[c] \in Nat)
  /\ [][\A c \in Counters : metrics'[c] >= metrics[c]]_vars

\* C9: a request whose inference call raised called inference once, stores
\* to total_requests and failed_predictions only, never to
\* successful_predictions, is answered 500 "Prediction failed" by the predict
\* handler itself, and leaves the model loaded
C9_InferenceFailureIsLocal ==
  \A t \in Threads :
    raised[t]
    => /\ inferCalls[t] = 1
       /\ pc[t] \in {"L160r", "L160w", "done"}
       /\ "successful_predictions" \notin stored[t]
       /\ _model = "model"
       /\ ready_response.status = 200
       /\ pc[t] = "done" =>
            /\ resp[t] = PredictionFailed
            /\ stored[t] = {"total_requests", "failed_predictions"}

C9_Witness == \E t \in Threads : raised[t] /\ Answered(t)

\* the outcome counter of a response of the predict handler
OutcomeCounter(r) ==
  IF r.status = 200 THEN "successful_predictions"
  ELSE IF r.status = 503 \/ r.error = "Invalid request format" THEN "errors"
  ELSE "failed_predictions"

\* C10: with requests served one at a time and no 500 handler, every answered
\* predict request stored to total_requests and to exactly the one outcome
\* counter of its branch, and between requests total_requests is the sum of
\* the three outcome counters
C10_CountersPartition ==
  /\ \A t \in Threads :
       Answered(t) => stored[t] = {"total_requests", OutcomeCounter(resp[t])}
  /\ Quiet => metrics["total_requests"] =
                metrics["successful_predictions"]
                + metrics["failed_predictions"] + metrics["errors"]

C10_Witness ==
  /\ Quiet
  /\ metrics["total_requests"] = MaxRequests
  /\ metrics["successful_predictions"] >= 1
  /\ metrics["failed_predictions"] >= 1
  /\ metrics["errors"] >= 1

====
